---- MODULE Spec2Model ----
(***************************************************************************)
(* Model of snt.py: a utility that keeps a working copy synchronized with  *)
(* its upstream and supervises one child process started from it.          *)
(*                                                                         *)
(* Spec      : one run of `snt.py start` (main, lines 146-189) together    *)
(*             with its environment (upstream advances, the child exits,   *)
(*             the operator interrupts).                                   *)
(* SpecStore : arbitrary sequences of update_repo_config on the store.     *)
(***************************************************************************)
EXTENDS Integers, Sequences, FiniteSets

\* ---------------------------------------------------------------- bounds
MaxPolls == 3          \* poll cycles explored
MaxRev == 3            \* upstream revisions 1..MaxRev
MaxRest == 2           \* characters of a URL after its prefix
MaxTok == 1            \* characters of a token

\* ------------------------------------------------------------ value sets
None == "None"                         \* Python None / option not given
Ids == {7, 42}                         \* repository identities
ArgUrls == {None, "", "u2"}            \* values of --repo-url
ArgTokens == {None, "t2"}              \* values of --token
StoreUrls == {None, "", "u1", "u2"}    \* url arguments of an upsert
StoreTokens == {None, "", "t1", "t2"}  \* token arguments of an upsert

\* Python truthiness of an optional string (`if url:`, `if token:`)
Truthy(x) == x # None /\ x # ""

VARIABLES
    pc,          \* position of main
    syncpc,      \* position inside clone_or_update_repo: "idle" | "fetched"
    args,        \* parsed command line: [repo, repo_url, token]
    auth,        \* one call of get_authenticated_url: [url, token, out]
    config,      \* in-memory config["repos"]: identity -> entry
    persisted,   \* config.json: [kind, repos]
    persisted0,  \* config.json as it was when the utility started
    lastOp,      \* arguments of the most recent update_repo_config call
    hasGit,      \* repo/.git exists
    localHead,   \* repo.head.commit (0: no checkout)
    trackHead,   \* origin.refs[branch].commit as of the last fetch
    upstreamHead,\* head of the branch on the remote
    upEntry,     \* the upstream head contains the start file
    entryFile,   \* the start file exists in the working copy
    dirty,       \* local modifications or untracked files in the working copy
    children,    \* every Popen made so far, in creation order: [st, terms,
                 \* entry, rev, own]; own: it exited before any terminate
    process,     \* main's `process` variable: index into children, 0 unset
    ret,         \* Popen result not yet stored into `process`
    updated,     \* result of the most recent synchronization pass
    lastPass,    \* how the most recent synchronization pass ended
    passes,      \* synchronization passes begun
    polls,       \* time.sleep calls returned
    nTrue,       \* poll passes that returned True
    upAtPass,    \* upstream head when the most recent pass returned
    interrupts,  \* KeyboardInterrupts delivered
    intAt,       \* pc at the first KeyboardInterrupt
    exitStatus,  \* exit status of the utility (-1 while running)
    exitCause    \* why the utility exited

storeVars == <<config, persisted, persisted0, lastOp>>
repoVars == <<hasGit, localHead, trackHead, upstreamHead, upEntry, entryFile, dirty>>
procVars == <<children, process, ret>>
passVars == <<updated, lastPass, passes, nTrue, upAtPass>>
intVars == <<interrupts, intAt>>
exitVars == <<exitStatus, exitCause>>
vars == <<pc, syncpc, args, auth, storeVars, repoVars, procVars, passVars, polls,
          intVars, exitVars>>

\* ----------------------------------------------------------- config store
NoEntry == [in |-> FALSE, url |-> None, token |-> None]
Entry(u, t) == [in |-> TRUE, url |-> u, token |-> t]
EmptyRepos == [i \in Ids |-> NoEntry]
NoFile == [kind |-> "absent", repos |-> EmptyRepos]
CorruptFile == [kind |-> "corrupt", repos |-> EmptyRepos]
NoOp == [id |-> 0, url |-> None, token |-> None]

\* load_config: the persisted mapping, or {"repos": {}} when there is no file
load_config(file) == IF file.kind = "ok" THEN file.repos ELSE EmptyRepos

\* save_config: json.dump of the whole mapping over the file
save_config(cfg) == [kind |-> "ok", repos |-> cfg]

\* get_repo_config: the entry, or None (in = FALSE)
get_repo_config(cfg, repo_id) == cfg[repo_id]

update_repo_config_Overwrite(cfg, repo_id, url, token) ==
    [cfg EXCEPT ![repo_id] = Entry(IF Truthy(url) THEN url ELSE None,
                                   IF Truthy(token) THEN token ELSE None)]

\* update_repo_config without its trailing save_config
update_repo_config(cfg, repo_id, url, token) ==
    LET e0 == IF cfg[repo_id].in THEN cfg[repo_id] ELSE Entry(None, None)
        e1 == IF Truthy(url) THEN [e0 EXCEPT !.url = url] ELSE e0
        e2 == IF Truthy(token) THEN [e1 EXCEPT !.token = token] ELSE e1
    IN  [cfg EXCEPT ![repo_id] = e2]

\* --------------------------- get_authenticated_url, lines 46 to 56
\* URLs and tokens as sequences of characters; a token is [some, val],
\* some = FALSE standing for None.
NoToken == [some |-> FALSE, val |-> <<>>]
NoAuth == [url |-> <<>>, token |-> NoToken, out |-> <<>>]

\* `if token:`
TokenTruthy(t) == t.some /\ t.val # <<>>

\* str.startswith
StartsWith(s, p) == Len(s) >= Len(p) /\ SubSeq(s, 1, Len(p)) = p

\* index of the first occurrence of p in s, 0 when there is none (str.find + 1)
Find(s, p) ==
    LET hits == {i \in 1..(Len(s) - Len(p) + 1) : SubSeq(s, i, i + Len(p) - 1) = p}
    IN  IF hits = {} THEN 0 ELSE CHOOSE i \in hits : \A j \in hits : i <= j

\* s.replace(old, new, 1)
Replace1(s, old, new) ==
    LET i == Find(s, old)
    IN  IF i = 0 THEN s
        ELSE SubSeq(s, 1, i - 1) \o new \o SubSeq(s, i + Len(old), Len(s))

HttpsPrefix == <<"h", "t", "t", "p", "s", ":", "/", "/">>
HttpPrefix == <<"h", "t", "t", "p", ":", "/", "/">>

get_authenticated_url_HttpsOnly(url, token) ==
    IF TokenTruthy(token) /\ StartsWith(url, HttpsPrefix)
    THEN Replace1(url, HttpsPrefix, HttpsPrefix \o token.val \o <<"@">>)
    ELSE url

get_authenticated_url(url, token) ==
    IF TokenTruthy(token)
    THEN IF StartsWith(url, HttpsPrefix)
         THEN Replace1(url, HttpsPrefix, HttpsPrefix \o token.val \o <<"@">>)
         ELSE IF StartsWith(url, HttpPrefix)
              THEN Replace1(url, HttpPrefix, HttpPrefix \o token.val \o <<"@">>)
              ELSE url
    ELSE url

\* ------------------------------------------------------------------- Init
PersistedInit ==
    { NoFile, CorruptFile,
      save_config([EmptyRepos EXCEPT ![42] = Entry("u1", "t1")]),
      save_config([EmptyRepos EXCEPT ![42] = Entry("u1", None)]) }

InitCommon ==
    /\ syncpc = "idle"
    /\ lastOp = NoOp
    /\ upstreamHead = 1
    /\ upEntry \in BOOLEAN
    /\ hasGit \in BOOLEAN
    /\ localHead = (IF hasGit THEN 1 ELSE 0)
    /\ trackHead = (IF hasGit THEN 1 ELSE 0)
    /\ entryFile \in (IF hasGit THEN {upEntry} ELSE BOOLEAN)
    /\ dirty = FALSE
    /\ children = <<>>
    /\ process = 0
    /\ ret = 0
    /\ updated = FALSE
    /\ lastPass = "none"
    /\ passes = 0
    /\ polls = 0
    /\ nTrue = 0
    /\ upAtPass = 0
    /\ interrupts = 0
    /\ intAt = "none"
    /\ exitStatus = -1
    /\ exitCause = "none"

Init ==
    /\ pc = "load"
    /\ args \in [repo : Ids, repo_url : ArgUrls, token : ArgTokens]
    /\ auth = NoAuth
    /\ persisted \in PersistedInit
    /\ persisted0 = persisted
    /\ config = EmptyRepos
    /\ InitCommon

\* --------------------------------------------------------------- exiting
Exit(status, cause) ==
    /\ pc' = "done"
    /\ exitStatus' = status
    /\ exitCause' = cause

\* ------------------------------------------------ main, lines 147 to 161
Load_ResetOnCorrupt ==
    /\ pc = "load"
    /\ config' = load_config(persisted)
    /\ pc' = "resolve"
    /\ UNCHANGED <<syncpc, args, auth, persisted, persisted0, lastOp, repoVars,
                   procVars, passVars, polls, intVars, exitVars>>

\* config = load_config(); json.load raises on a malformed file
Load ==
    /\ pc = "load"
    /\ IF persisted.kind = "corrupt"
       THEN /\ Exit(1, "badconfig")
            /\ UNCHANGED config
       ELSE /\ config' = load_config(persisted)
            /\ pc' = "resolve"
            /\ UNCHANGED exitVars
    /\ UNCHANGED <<syncpc, args, auth, persisted, persisted0, lastOp, repoVars,
                   procVars, passVars, polls, intVars>>

Upsert_NoSave(repo_id, url, token) ==
    /\ config' = update_repo_config(config, repo_id, url, token)
    /\ persisted' = persisted
    /\ lastOp' = [id |-> repo_id, url |-> url, token |-> token]

\* update_repo_config, lines 34 to 43: the update and its save_config
Upsert(repo_id, url, token) ==
    /\ config' = update_repo_config(config, repo_id, url, token)
    /\ persisted' = save_config(config')
    /\ lastOp' = [id |-> repo_id, url |-> url, token |-> token]

ResolveConfig ==
    /\ pc = "resolve"
    /\ IF ~get_repo_config(config, args.repo).in
       THEN IF Truthy(args.repo_url)
            THEN /\ Upsert(args.repo, args.repo_url, args.token)
                 /\ pc' = "sync0"
                 /\ UNCHANGED exitVars
            ELSE /\ Exit(1, "noconfig")
                 /\ UNCHANGED <<config, persisted, lastOp>>
       ELSE IF Truthy(args.token)
            THEN /\ Upsert(args.repo, None, args.token)
                 /\ pc' = "sync0"
                 /\ UNCHANGED exitVars
            ELSE /\ pc' = "sync0"
                 /\ UNCHANGED <<config, persisted, lastOp, exitVars>>
    /\ UNCHANGED <<syncpc, args, auth, persisted0, repoVars, procVars, passVars,
                   polls, intVars>>

\* ----------------------------- clone_or_update_repo, lines 59 to 112
PassOutcomes == {"none", "clone_ok", "clone_fail", "fetch_fail", "noref",
                 "same", "updated", "update_fail"}

AfterPass_NeverRestart(val) ==
    IF pc = "sync0" THEN "start0" ELSE "sleep"

AfterPass_RestartAlways(val) ==
    IF pc = "sync0" THEN "start0" ELSE "term"

AfterPass_SkipStop(val) ==
    IF pc = "sync0" THEN "start0" ELSE IF val THEN "start" ELSE "sleep"

\* where main continues once a pass has returned `val`: line 170 after the
\* pass of line 167; line 181 or back to line 174 after the pass of line 177
AfterPass(val) ==
    IF pc = "sync0" THEN "start0" ELSE IF val THEN "term" ELSE "sleep"

Return(val, outcome) ==
    /\ updated' = val
    /\ lastPass' = outcome
    /\ syncpc' = "idle"
    /\ pc' = AfterPass(val)
    /\ nTrue' = (IF pc = "sync" /\ val THEN nTrue + 1 ELSE nTrue)
    /\ upAtPass' = upstreamHead
    /\ UNCHANGED exitVars

Clone_Always ==
    \/ /\ ~entryFile
       /\ hasGit' = TRUE
       /\ localHead' = upstreamHead
       /\ trackHead' = upstreamHead
       /\ entryFile' = upEntry
       /\ Return(TRUE, "clone_ok")
       /\ UNCHANGED <<upstreamHead, upEntry, dirty>>
    \/ /\ Return(FALSE, "clone_fail")
       /\ UNCHANGED repoVars

\* lines 64 to 71 and 112: no .git, Repo.clone_from. git refuses to clone
\* into a directory that has content, so a clone can succeed only when the
\* start file is not already there.
Clone ==
    /\ ~hasGit
    /\ \/ /\ ~entryFile
          /\ hasGit' = TRUE
          /\ localHead' = upstreamHead
          /\ trackHead' = upstreamHead
          /\ entryFile' = upEntry
          /\ Return(TRUE, "clone_ok")
          /\ UNCHANGED <<upstreamHead, upEntry, dirty>>
       \/ /\ Return(FALSE, "clone_fail")
          /\ UNCHANGED repoVars

\* lines 75, 76, 83, 84: Repo(...), repo.remotes.origin, repo.active_branch
\* and repo.head.commit raise errors that are not GitCommandError (broken
\* metadata, detached HEAD); no handler of clone_or_update_repo or of main
\* catches them, and the interpreter exits with status 1.
OpenRaises ==
    /\ hasGit
    /\ Exit(1, "error")
    /\ syncpc' = "idle"
    /\ UNCHANGED <<repoVars, updated, lastPass, nTrue, upAtPass>>

Fetch_ResetOnSame ==
    /\ hasGit
    /\ \/ /\ Return(FALSE, "fetch_fail")
          /\ UNCHANGED repoVars
       \/ /\ Return(FALSE, "noref")
          /\ UNCHANGED repoVars
       \/ /\ trackHead' = upstreamHead
          /\ UNCHANGED <<hasGit, localHead, upstreamHead, upEntry, entryFile>>
          /\ IF localHead # trackHead'
             THEN /\ syncpc' = "fetched"
                  /\ dirty' = dirty
                  /\ UNCHANGED <<pc, updated, lastPass, nTrue, upAtPass, exitVars>>
             ELSE /\ dirty' = FALSE
                  /\ Return(FALSE, "same")

Fetch_NoCompare ==
    /\ hasGit
    /\ \/ /\ Return(FALSE, "fetch_fail")
          /\ UNCHANGED repoVars
       \/ /\ Return(FALSE, "noref")
          /\ UNCHANGED repoVars
       \/ /\ trackHead' = upstreamHead
          /\ UNCHANGED <<hasGit, localHead, upstreamHead, upEntry, entryFile, dirty>>
          /\ syncpc' = "fetched"
          /\ UNCHANGED <<pc, updated, lastPass, nTrue, upAtPass, exitVars>>

\* lines 77 to 96 and 107 to 110: fetch (GitCommandError caught), resolve
\* origin.refs[branch] (IndexError, AttributeError caught), compare heads
Fetch ==
    /\ hasGit
    /\ \/ /\ Return(FALSE, "fetch_fail")
          /\ UNCHANGED repoVars
       \/ /\ Return(FALSE, "noref")
          /\ UNCHANGED repoVars
       \/ /\ trackHead' = upstreamHead
          /\ UNCHANGED <<hasGit, localHead, upstreamHead, upEntry, entryFile, dirty>>
          /\ IF localHead # trackHead'
             THEN /\ syncpc' = "fetched"
                  /\ UNCHANGED <<pc, updated, lastPass, nTrue, upAtPass, exitVars>>
             ELSE Return(FALSE, "same")

SyncBegin ==
    /\ pc \in {"sync0", "sync"}
    /\ syncpc = "idle"
    /\ passes' = passes + 1
    /\ (Clone \/ OpenRaises \/ Fetch)
    /\ UNCHANGED <<args, auth, storeVars, procVars, polls, intVars>>

SyncUpdate_NoPull ==
    /\ pc \in {"sync0", "sync"}
    /\ syncpc = "fetched"
    /\ \/ /\ dirty' = FALSE
          /\ Return(TRUE, "updated")
          /\ UNCHANGED <<hasGit, localHead, trackHead, upstreamHead, upEntry, entryFile>>
       \/ /\ dirty' \in {dirty, FALSE}
          /\ Return(FALSE, "update_fail")
          /\ UNCHANGED <<hasGit, localHead, trackHead, upstreamHead, upEntry, entryFile>>
    /\ UNCHANGED <<args, auth, storeVars, procVars, passes, polls, intVars>>

SyncUpdate_FailRestarts ==
    /\ pc \in {"sync0", "sync"}
    /\ syncpc = "fetched"
    /\ \/ /\ dirty' = FALSE
          /\ localHead' = upstreamHead
          /\ trackHead' = upstreamHead
          /\ entryFile' = upEntry
          /\ Return(TRUE, "updated")
          /\ UNCHANGED <<hasGit, upstreamHead, upEntry>>
       \/ /\ dirty' \in {dirty, FALSE}
          /\ Return(TRUE, "update_fail")
          /\ UNCHANGED <<hasGit, localHead, trackHead, upstreamHead, upEntry, entryFile>>
    /\ UNCHANGED <<args, auth, storeVars, procVars, passes, polls, intVars>>

\* lines 99 to 106: reset --hard, clean -fd, pull (which fetches again)
SyncUpdate ==
    /\ pc \in {"sync0", "sync"}
    /\ syncpc = "fetched"
    /\ \/ /\ dirty' = FALSE
          /\ localHead' = upstreamHead
          /\ trackHead' = upstreamHead
          /\ entryFile' = upEntry
          /\ Return(TRUE, "updated")
          /\ UNCHANGED <<hasGit, upstreamHead, upEntry>>
       \/ /\ dirty' \in {dirty, FALSE}
          /\ Return(FALSE, "update_fail")
          /\ UNCHANGED <<hasGit, localHead, trackHead, upstreamHead, upEntry, entryFile>>
    /\ UNCHANGED <<args, auth, storeVars, procVars, passes, polls, intVars>>

\* ------------------------------------- run_start_file, lines 115 to 127
EntryMissing_Never == FALSE

\* line 121: not os.path.exists(start_file_path)
EntryMissing == ~entryFile

NewChild == [st |-> "running", terms |-> 0, entry |-> entryFile, rev |-> localHead,
             own |-> FALSE]

RunStartFile ==
    /\ pc \in {"start0", "start"}
    /\ IF EntryMissing
       THEN /\ Exit(1, "noentry")
            /\ UNCHANGED <<children, ret>>
       ELSE /\ children' = Append(children, NewChild)
            /\ ret' = Len(children) + 1
            /\ pc' = (IF pc = "start0" THEN "assign0" ELSE "assign")
            /\ UNCHANGED exitVars
    /\ UNCHANGED <<syncpc, args, auth, storeVars, repoVars, process, passVars,
                   polls, intVars>>

\* lines 170 and 183: process = <the Popen returned>
Assign ==
    /\ pc \in {"assign0", "assign"}
    /\ process' = ret
    /\ ret' = 0
    /\ pc' = "sleep"
    /\ UNCHANGED <<syncpc, args, auth, storeVars, repoVars, children, passVars,
                   polls, intVars, exitVars>>

\* ------------------------------------------- main loop, lines 172 to 183
\* line 174: time.sleep(args.check_time) returns
PollWait ==
    /\ pc = "sleep"
    /\ polls < MaxPolls
    /\ polls' = polls + 1
    /\ pc' = "sync"
    /\ UNCHANGED <<syncpc, args, auth, storeVars, repoVars, procVars, passVars,
                   intVars, exitVars>>

Terminate_RaisesOnExited ==
    /\ pc \in {"term", "h_term"}
    /\ IF children[process].st = "exited"
       THEN /\ Exit(1, "error")
            /\ UNCHANGED children
       ELSE /\ children' = [children EXCEPT ![process].terms =
                               IF children[process].st # "reaped" THEN @ + 1 ELSE @]
            /\ pc' = (IF pc = "term" THEN "wait" ELSE "h_wait")
            /\ UNCHANGED exitVars
    /\ UNCHANGED <<syncpc, args, auth, storeVars, repoVars, process, ret, passVars,
                   polls, intVars>>

\* lines 181 and 187: process.terminate(), a request while the handle has
\* no return code yet
Terminate ==
    /\ pc \in {"term", "h_term"}
    /\ children' = [children EXCEPT ![process].terms =
                        IF children[process].st # "reaped" THEN @ + 1 ELSE @]
    /\ pc' = (IF pc = "term" THEN "wait" ELSE "h_wait")
    /\ UNCHANGED <<syncpc, args, auth, storeVars, repoVars, process, ret, passVars,
                   polls, intVars, exitVars>>

Wait_NoBlock ==
    /\ pc \in {"wait", "h_wait"}
    /\ pc' = (IF pc = "wait" THEN "start" ELSE "h_exit")
    /\ UNCHANGED <<syncpc, args, auth, storeVars, repoVars, procVars, passVars,
                   polls, intVars, exitVars>>

\* lines 182 and 188: process.wait() blocks until the child has exited
Wait ==
    /\ pc \in {"wait", "h_wait"}
    /\ children[process].st # "running"
    /\ children' = [children EXCEPT ![process].st = "reaped"]
    /\ pc' = (IF pc = "wait" THEN "start" ELSE "h_exit")
    /\ UNCHANGED <<syncpc, args, auth, storeVars, repoVars, process, ret, passVars,
                   polls, intVars, exitVars>>

\* line 189: sys.exit(0)
ExitZero ==
    /\ pc = "h_exit"
    /\ Exit(0, "interrupt")
    /\ UNCHANGED <<syncpc, args, auth, storeVars, repoVars, procVars, passVars,
                   polls, intVars>>

\* ------------------------------------------------------- KeyboardInterrupt
\* positions inside the try block of lines 172 to 183
TryPcs == {"sleep", "sync", "term", "wait", "start", "assign"}
\* positions of the sync loop, from the first pass on
LoopPcs == {"sync0", "start0", "assign0"} \cup TryPcs

InterruptTarget_Ignore == pc

\* line 184: where a KeyboardInterrupt raised in the try block is handled
InterruptTarget == "h_term"

\* SIGINT raises KeyboardInterrupt at main's current position: caught by
\* line 184 inside the try block; anywhere else (before line 172, or inside
\* the handler itself) it is uncaught and the interpreter dies of it.
Interrupt ==
    /\ pc # "done"
    /\ interrupts' = interrupts + 1
    /\ intAt' = (IF interrupts = 0 THEN pc ELSE intAt)
    /\ syncpc' = "idle"
    /\ ret' = 0
    /\ IF pc \in TryPcs
       THEN /\ pc' = InterruptTarget
            /\ UNCHANGED exitVars
       ELSE Exit(130, "sigint")
    /\ UNCHANGED <<args, auth, storeVars, repoVars, children, process, passVars, polls>>

\* ------------------------------------------------------------ environment
\* a commit is pushed to the tracked branch; it may add or remove the start file
UpstreamAdvance ==
    /\ pc # "done"
    /\ upstreamHead < MaxRev
    /\ upstreamHead' = upstreamHead + 1
    /\ upEntry' \in BOOLEAN
    /\ UNCHANGED <<pc, syncpc, args, auth, storeVars, hasGit, localHead, trackHead,
                   entryFile, dirty, procVars, passVars, polls, intVars, exitVars>>

\* the child exits, on its own or after a termination request
ChildExit ==
    /\ pc # "done"
    /\ \E i \in 1..Len(children) :
          /\ children[i].st = "running"
          /\ children' = [children EXCEPT ![i].st = "exited",
                                          ![i].own = (children[i].terms = 0)]
    /\ UNCHANGED <<pc, syncpc, args, auth, storeVars, repoVars, process, ret,
                   passVars, polls, intVars, exitVars>>

\* the child (or anything else) writes into the working copy
MakeDirty ==
    /\ pc # "done"
    /\ hasGit
    /\ ~dirty
    /\ dirty' = TRUE
    /\ UNCHANGED <<pc, syncpc, args, auth, storeVars, hasGit, localHead, trackHead,
                   upstreamHead, upEntry, entryFile, procVars, passVars, polls,
                   intVars, exitVars>>

Next ==
    \/ Load
    \/ ResolveConfig
    \/ SyncBegin
    \/ SyncUpdate
    \/ RunStartFile
    \/ Assign
    \/ PollWait
    \/ Terminate
    \/ Wait
    \/ ExitZero
    \/ Interrupt
    \/ UpstreamAdvance
    \/ ChildExit
    \/ MakeDirty

Spec == Init /\ [][Next]_vars

\* --------------------------------- sequences of upserts on the config store
InitStore ==
    /\ pc = "store"
    /\ args = [repo |-> 7, repo_url |-> None, token |-> None]
    /\ auth = NoAuth
    /\ persisted = NoFile
    /\ persisted0 = persisted
    /\ config = load_config(persisted)
    /\ hasGit = FALSE
    /\ upEntry = TRUE
    /\ entryFile = FALSE
    /\ InitCommon

StoreUpsert ==
    /\ pc = "store"
    /\ \E repo_id \in Ids, url \in StoreUrls, token \in StoreTokens :
          Upsert(repo_id, url, token)
    /\ UNCHANGED <<pc, syncpc, args, auth, persisted0, repoVars, procVars, passVars,
                   polls, intVars, exitVars>>

NextStore == StoreUpsert

SpecStore == InitStore /\ [][NextStore]_vars

\* ------------------------------- calls of get_authenticated_url
SeqsUpTo(S, n) == UNION {[1..k -> S] : k \in 0..n}

UrlPrefixes ==
    { <<>>,
      <<"h", "t", "t", "p">>,
      <<"h", "t", "t", "p", ":", "/">>,
      <<"h", "t", "t", "p", "s", ":", "/">>,
      HttpPrefix,
      HttpsPrefix,
      <<"x">> \o HttpPrefix,
      <<"g", "i", "t", ":", "/", "/">>,
      <<"g", "i", "t", "@", "h", ":">> }
UrlRests == SeqsUpTo({"a", "/", ":"}, MaxRest)
AuthUrls == {p \o r : p \in UrlPrefixes, r \in UrlRests}
AuthTokens == {NoToken} \cup
              {[some |-> TRUE, val |-> v] : v \in SeqsUpTo({"t", "@"}, MaxTok)}

InitUrl ==
    /\ pc = "url"
    /\ args = [repo |-> 7, repo_url |-> None, token |-> None]
    /\ auth \in [url : AuthUrls, token : AuthTokens, out : {<<>>}]
    /\ persisted = NoFile
    /\ persisted0 = persisted
    /\ config = load_config(persisted)
    /\ hasGit = FALSE
    /\ upEntry = TRUE
    /\ entryFile = FALSE
    /\ InitCommon

\* line 62: auth_url = get_authenticated_url(url, token)
CallAuth ==
    /\ pc = "url"
    /\ auth' = [auth EXCEPT !.out = get_authenticated_url(auth.url, auth.token)]
    /\ pc' = "url_done"
    /\ UNCHANGED <<syncpc, args, storeVars, repoVars, procVars, passVars,
                   polls, intVars, exitVars>>

NextUrl == CallAuth

SpecUrl == InitUrl /\ [][NextUrl]_vars

TypeOK ==
    /\ pc \in {"load", "resolve", "sync0", "start0", "assign0", "sleep", "sync",
               "term", "wait", "start", "assign", "h_term", "h_wait", "h_exit",
               "done", "store", "url", "url_done"}
    /\ syncpc \in {"idle", "fetched"}
    /\ lastPass \in PassOutcomes
    /\ process \in 0..Len(children)
    /\ ret \in 0..Len(children)
    /\ localHead <= trackHead /\ trackHead <= upstreamHead
    /\ upstreamHead \in 1..MaxRev
    /\ polls \in 0..MaxPolls
    /\ interrupts \in 0..2

\* ------------------------------------------------------------ properties
Unreaped == {i \in 1..Len(children) : children[i].st # "reaped"}
Running == {i \in 1..Len(children) : children[i].st = "running"}
Stopped(i) == children[i].st = "reaped" /\ children[i].terms >= 1

\* C1: in every reachable state at most one child started by the utility is
\* alive, that is started and not yet confirmed exited by a wait.
C1_AtMostOneAlive == Cardinality(Unreaped) <= 1

C1_Witness ==
    /\ pc = "sleep"
    /\ Len(children) = 2
    /\ process = 2
    /\ Unreaped = {2}

\* C2: on every restart the old child is sent the terminate request, then
\* the wait on it returns, then the new child is created; and line 181 is
\* reached only by the return of the poll pass, with changed = true.
C2_RestartOrder ==
    [][ /\ (Len(children') > Len(children) /\ Len(children) > 0) =>
            /\ pc = "start"
            /\ process = Len(children)
            /\ Stopped(process)
            /\ updated
        /\ (pc' = "wait" /\ pc # "wait") =>
            /\ pc = "term"
            /\ children'[process].terms = children[process].terms + 1
            /\ children[process].st # "reaped"
        /\ (pc' = "start" /\ pc # "start") =>
            /\ pc = "wait"
            /\ children'[process].st = "reaped"
        /\ (pc' = "term" /\ pc # "term") =>
            /\ pc = "sync"
            /\ syncpc' = "idle"
            /\ updated'
            /\ lastPass' \in {"clone_ok", "updated"}
      ]_vars

C2_Witness ==
    /\ pc = "assign"
    /\ Len(children) = 2
    /\ Stopped(1)
    /\ children[1].terms = 1
    /\ ret = 2

\* C3: a failed clone or fetch in any pass (the initial one included) never
\* makes the utility exit: when the start file exists upstream, the utility
\* does not end, uninterrupted, right after a pass whose clone or fetch failed.
C3_FailedPassKeepsLoopAlive ==
    ~(/\ pc = "done"
      /\ lastPass \in {"clone_fail", "fetch_fail"}
      /\ upEntry
      /\ interrupts = 0)

\* C4: absent interrupts and fatal errors, between poll passes the number of
\* children started is 1 plus the number of poll passes that returned true;
\* every replaced child got exactly one terminate and was waited on, and the
\* current handle is the last child started, never terminated.
C4_StartsMatchChanges ==
    (interrupts = 0 /\ pc \in {"sleep", "sync"}) =>
        /\ Len(children) = 1 + nTrue
        /\ process = Len(children)
        /\ children[process].terms = 0
        /\ children[process].st # "reaped"
        /\ \A i \in 1..(Len(children) - 1) :
              children[i].st = "reaped" /\ children[i].terms = 1

C4_Witness ==
    /\ pc = "sleep"
    /\ interrupts = 0
    /\ polls = 3
    /\ nTrue = 1
    /\ Len(children) = 2

\* C5: one interrupt arriving anywhere in the sync loop ends in exit status 0
\* with every child terminated and waited on.
C5_InterruptExitsZero ==
    (pc = "done" /\ interrupts = 1 /\ intAt \in LoopPcs) =>
        /\ exitStatus = 0
        /\ \A i \in 1..Len(children) : Stopped(i)

\* C6: whenever the utility has exited, no child it started is still running;
\* stated here for the exits that no interrupt took part in (a fatal
\* configuration error, an error escaping a synchronization pass).
C6_NoOrphanAtExit == (pc = "done" /\ interrupts = 0) => Running = {}

\* C7: a start attempt with the start file missing exits with status 1 and
\* creates no process; at a restart the old child has been terminated and
\* waited on by then, so no child is alive at that exit.
C7_MissingEntryIsFatal ==
    [][ /\ \A i \in 1..Len(children') : children'[i].entry
        /\ (pc \in {"start0", "start"} /\ ~entryFile /\ pc' # pc
                /\ interrupts' = interrupts) =>
            /\ pc' = "done"
            /\ exitStatus' = 1
            /\ exitCause' = "noentry"
            /\ children' = children
        /\ (exitCause' = "noentry") =>
            /\ exitStatus' = 1
            /\ Unreaped' = {}
            /\ \A i \in 1..Len(children') : Stopped(i)'
      ]_vars

C7_Witness ==
    /\ pc = "done"
    /\ exitCause = "noentry"
    /\ Len(children) = 1
    /\ Stopped(1)

\* C8: an identity unknown to the store with no (non-empty) URL given exits
\* with status 1 before any pass and any start, leaving the store in memory
\* and on disk as loaded; with a URL given the identity is registered with
\* that URL and the token, if given, the store is saved and the loop proceeds.
Unknown == ~load_config(persisted0)[args.repo].in
PastResolve == pc = "sync0" \/ passes > 0

C8_UnknownIdentity ==
    /\ (pc # "store" /\ persisted0.kind # "corrupt" /\ Unknown
            /\ ~Truthy(args.repo_url)) =>
        /\ pc \in {"load", "resolve", "done"}
        /\ passes = 0
        /\ children = <<>>
        /\ persisted = persisted0
        /\ (pc = "resolve" \/ exitCause = "noconfig") =>
              config = load_config(persisted0)
        /\ (pc = "done" /\ interrupts = 0) =>
              exitStatus = 1 /\ exitCause = "noconfig"
    /\ (exitCause = "noconfig") => (Unknown /\ ~Truthy(args.repo_url))
    /\ (PastResolve /\ Unknown) =>
        /\ Truthy(args.repo_url)
        /\ config = [load_config(persisted0) EXCEPT ![args.repo] =
                        Entry(args.repo_url,
                              IF Truthy(args.token) THEN args.token ELSE None)]
        /\ persisted = save_config(config)

C8_Witness ==
    /\ pc = "sleep"
    /\ Unknown
    /\ persisted0.kind = "ok"
    /\ config[args.repo] = Entry("u2", "t2")
    /\ persisted.repos = config
    /\ process = 1

\* C9: once an interrupt has been observed no synchronization pass runs and
\* no child is started; an interrupt during the poll wait ends with the
\* running child terminated and waited on and exit status 0.
C9_NoWorkAfterInterrupt ==
    [][ /\ (interrupts > 0) =>
            /\ passes' = passes
            /\ syncpc' = syncpc
            /\ lastPass' = lastPass
            /\ localHead' = localHead
            /\ Len(children') = Len(children)
            /\ polls' = polls
        /\ (pc' = "done" /\ interrupts' = 1 /\ intAt' = "sleep") =>
            /\ exitStatus' = 0
            /\ Stopped(process)'
            /\ Unreaped' = {}
      ]_vars

C9_Witness ==
    /\ pc = "done"
    /\ interrupts = 1
    /\ intAt = "sleep"
    /\ exitStatus = 0
    /\ passes = 2

\* C10: every upsert leaves the URL of its entry alone unless it supplies a
\* URL, leaves the token alone unless it supplies a token, leaves the entries
\* of the other identities alone, and returns with the persisted mapping
\* equal to the mapping in memory.
C10_UpsertFrame ==
    [][ LET op == lastOp' IN
        /\ op.id \in Ids
        /\ persisted'.kind = "ok"
        /\ persisted'.repos = config'
        /\ config'[op.id].in
        /\ \A j \in Ids \ {op.id} : config'[j] = config[j]
        /\ (~Truthy(op.url) /\ config[op.id].in) =>
              config'[op.id].url = config[op.id].url
        /\ (~Truthy(op.token) /\ config[op.id].in) =>
              config'[op.id].token = config[op.id].token
        /\ Truthy(op.url) => config'[op.id].url = op.url
        /\ Truthy(op.token) => config'[op.id].token = op.token
      ]_storeVars

C10_Witness ==
    /\ pc = "store"
    /\ lastOp = [id |-> 42, url |-> None, token |-> "t2"]
    /\ config[42] = Entry("u1", "t2")
    /\ config[7] = Entry("u2", None)
    /\ persisted.repos = config

\* C11: with a token set (non-empty) and a URL of scheme http or https, the
\* authenticated address is the URL with `token@` inserted once, right after
\* the first `://`; for any other scheme or without a token it is the URL.
SchemeSep == <<":", "/", "/">>
SchemeOf(u) == SubSeq(u, 1, Find(u, SchemeSep) - 1)
UsesHttp(u) ==
    /\ Find(u, SchemeSep) > 0
    /\ SchemeOf(u) \in {<<"h", "t", "t", "p">>, <<"h", "t", "t", "p", "s">>}
WithUserinfo(u, t) ==
    LET k == Find(u, SchemeSep) + 2
    IN  SubSeq(u, 1, k) \o t \o <<"@">> \o SubSeq(u, k + 1, Len(u))

C11_AuthenticatedUrl ==
    (pc = "url_done") =>
        IF TokenTruthy(auth.token) /\ UsesHttp(auth.url)
        THEN /\ auth.out = WithUserinfo(auth.url, auth.token.val)
             /\ Len(auth.out) = Len(auth.url) + Len(auth.token.val) + 1
        ELSE auth.out = auth.url

C11_Witness ==
    /\ pc = "url_done"
    /\ auth.url = HttpPrefix \o <<"a", "/">>
    /\ auth.token = [some |-> TRUE, val |-> <<"t">>]
    /\ auth.out = HttpPrefix \o <<"t", "@", "a", "/">>

\* a synchronization pass returns to main in this step
Returned == pc \in {"sync0", "sync"} /\ pc' \in {"start0", "term", "sleep"}

\* C12: on an existing working copy a pass returns true only when the
\* upstream head has moved past the local head, and then leaves the local
\* head on the upstream head, so that no advance is reported twice; a pass
\* that finds the heads equal has no advance left to report, and a pass that
\* returns false does not move the local head.
C12_OncePerAdvance ==
    [][ (Returned /\ hasGit) =>
            /\ updated' => (localHead < localHead' /\ localHead' = upstreamHead')
            /\ ~updated' => localHead' = localHead
            /\ (lastPass' = "same") => localHead = upstreamHead
            /\ updated' = (lastPass' = "updated")
      ]_vars

C12_Witness ==
    /\ pc = "sleep"
    /\ lastPass = "updated"
    /\ nTrue = 2
    /\ localHead = 3
    /\ upstreamHead = 3
    /\ children[process].rev = 3

\* a synchronization pass begins in this step
Begun == passes' = passes + 1
CloneOutcomes == {"clone_ok", "clone_fail"}
FetchOutcomes == {"fetch_fail", "noref", "same"}
Converged == {"clone_ok", "updated", "same"}

\* a path without .git is cloned and not fetched; a path with .git is never
\* cloned, and is fetched unless lines 75, 76 raise before line 78
BranchByMetadata ==
    Begun =>
        IF ~hasGit
        THEN Returned /\ lastPass' \in CloneOutcomes /\ syncpc' = "idle"
        ELSE /\ hasGit'
             /\ ~(Returned /\ lastPass' \in CloneOutcomes)
             /\ \/ pc' = "done" /\ exitCause' = "error"
                \/ syncpc' = "fetched"
                \/ Returned /\ lastPass' \in FetchOutcomes

Live == process > 0 /\ children[process].st = "running"

\* C14 as claimed: in a poll wait with a live child, the revision the child
\* was launched from is the remote tracking head of the latest successful fetch.
C14_ChildAtTrackingHead ==
    (pc = "sleep" /\ Live) => children[process].rev = trackHead

\* C14 amended: in a poll wait with a live child, the child was launched from
\* the local head, which is the remote tracking head whenever the most recent
\* pass converged (cloned, updated, or found the heads equal).
C14_ChildAtLocalHead ==
    (pc = "sleep" /\ Live) =>
        /\ children[process].rev = localHead
        /\ lastPass \in Converged => children[process].rev = trackHead

C14_Witness ==
    /\ pc = "sleep"
    /\ Live
    /\ lastPass = "updated"
    /\ process = 2
    /\ children[2].rev = 2
    /\ trackHead = 2

\* C15: no child gets more than one terminate request from the utility.
C15_AtMostOneTerminate == \A i \in 1..Len(children) : children[i].terms <= 1

\* C16: a pass on an existing working copy that returns false because the
\* fetch failed, the remote ref did not resolve or the heads are equal never
\* entered the update step and leaves the local head, the local
\* modifications and the files of the working copy as they were.
C16_FalsePassIsNoOp ==
    [][ (Returned /\ hasGit /\ lastPass' \in FetchOutcomes) =>
            /\ ~updated'
            /\ syncpc = "idle"
            /\ hasGit'
            /\ localHead' = localHead
            /\ dirty' = dirty
            /\ entryFile' = entryFile
      ]_vars

C16_Witness ==
    /\ pc = "sleep"
    /\ hasGit
    /\ dirty
    /\ lastPass = "same"
    /\ polls = 1

\* C17: a failed update step makes the pass return false with the local head
\* unmoved and still behind, and the child is not restarted; every later pass
\* that starts behind upstream goes to the update step again once its fetch
\* succeeds, never reporting "no updates"; the pass whose update succeeds
\* returns true and the child is restarted from the new local head.
C17_UpdateRetried ==
    [][ /\ (Returned /\ lastPass' = "update_fail") =>
            /\ ~updated'
            /\ localHead' = localHead
            /\ localHead' < trackHead'
            /\ pc = "sync" => (pc' = "sleep" /\ children' = children
                                  /\ process' = process)
        /\ (Begun /\ hasGit /\ localHead # upstreamHead) =>
            /\ ~(Returned /\ lastPass' = "same")
            /\ (~Returned /\ pc' # "done") => syncpc' = "fetched"
        /\ (Returned /\ lastPass' = "updated") =>
            /\ updated'
            /\ localHead' = upstreamHead'
            /\ pc = "sync" => pc' = "term"
        /\ (Len(children') > Len(children)) =>
            children'[Len(children')].rev = localHead
      ]_vars

C17_Witness ==
    /\ pc = "sleep"
    /\ lastPass = "update_fail"
    /\ localHead < trackHead
    /\ Live
    /\ Len(children) = 1
    /\ children[1].rev = localHead

\* C18: load gives the empty store when there is no file and the persisted
\* mapping when it is well formed; a malformed file is fatal: the utility
\* exits with status 1, the file is left as it was, nothing is written to
\* it, and no pass and no start takes place.
C18_LoadConfig ==
    /\ (persisted0.kind = "corrupt") =>
        /\ pc \in {"load", "done"}
        /\ persisted = persisted0
        /\ lastOp = NoOp
        /\ passes = 0
        /\ children = <<>>
        /\ (pc = "done" /\ interrupts = 0) =>
              (exitStatus = 1 /\ exitCause = "badconfig")
    /\ (exitCause = "badconfig") => persisted0.kind = "corrupt"
    /\ (pc = "resolve") =>
          config = (IF persisted0.kind = "absent" THEN EmptyRepos
                    ELSE persisted0.repos)

C18_Witness ==
    /\ pc = "done"
    /\ exitCause = "badconfig"
    /\ exitStatus = 1
    /\ persisted = CorruptFile

\* C19: a child exiting on its own changes nothing in the utility, which goes
\* on polling with that handle and no replacement; terminate and wait on the
\* exited handle return, one new child follows a pass that returned true, and
\* an interrupt with an exited child ends with exit status 0.
OwnExit == process > 0 /\ children[process].own
ChildExits ==
    /\ Len(children') = Len(children)
    /\ \E i \in 1..Len(children) :
          children[i].st = "running" /\ children'[i].st = "exited"

C19_ChildExitsOnItsOwn ==
    [][ /\ ChildExits =>
            (pc' = pc /\ process' = process /\ exitStatus' = exitStatus)
        /\ (pc' \in {"sleep", "sync"} /\ OwnExit') =>
            (process' = Len(children') /\ Len(children') = 1 + nTrue')
        /\ (OwnExit /\ pc \in {"term", "h_term"} /\ pc' # pc
                /\ interrupts' = interrupts) =>
            pc' = (IF pc = "term" THEN "wait" ELSE "h_wait")
        /\ (OwnExit /\ pc \in {"wait", "h_wait"} /\ pc' # pc
                /\ interrupts' = interrupts) =>
            /\ pc' = (IF pc = "wait" THEN "start" ELSE "h_exit")
            /\ children'[process].st = "reaped"
        /\ (OwnExit /\ pc = "start" /\ children' # children) =>
            /\ Len(children') = Len(children) + 1
            /\ children[process].st = "reaped"
        /\ (OwnExit' /\ pc' = "done" /\ exitCause' = "interrupt") =>
            (exitStatus' = 0 /\ children'[process'].st = "reaped")
      ]_vars

C19_Witness ==
    /\ pc = "sleep"
    /\ Len(children) = 2
    /\ children[1].own
    /\ children[1].st = "reaped"
    /\ children[1].terms = 1
    /\ process = 2
    /\ children[2].st = "running"

\* C20: in every poll wait the local head is the one the current child was
\* started from; the local head moves only in a pass that returns true, and
\* such a pass goes on to a start, not back to the poll wait.
C20_HeadAtStart ==
    [][ /\ (pc' = "sleep") => children'[process'].rev = localHead'
        /\ (Returned /\ ~updated') => localHead' = localHead
        /\ (localHead' # localHead) =>
              (Returned /\ updated' /\ pc' \in {"start0", "term"})
      ]_vars

C20_Witness ==
    /\ pc = "sleep"
    /\ nTrue = 1
    /\ localHead = 2
    /\ Len(children) = 2
    /\ children[1].rev = 1
    /\ children[2].rev = 2
    /\ process = 2
====
